---------------------------- MODULE Spec2Model ----------------------------
(***************************************************************************)
(* A model of src/bot.py ("Aurum Core"): the request executor _req, the     *)
(* indicator functions, the breakout screen analyze_symbol, the sizer      *)
(* position_size, one scan cycle scan_and_trade and the scheduler loop of  *)
(* main.                                                                   *)
(*                                                                         *)
(* Numbers.  The program computes in binary floating point; the model      *)
(* computes the same expressions exactly, on integers:                     *)
(*   - a price or an amount of money is an integer number of price units,  *)
(*     one cent being ATR_N (= 14) units, so that the division by n = 14   *)
(*     in atr is exact for bars quoted in whole cents;                     *)
(*   - a volume is an integer, chosen a multiple of 60 so that the         *)
(*     divisions by 30 and by 20 in analyze_symbol are exact;              *)
(*   - risk_pct is an integer number of percent (0.01 is 1);               *)
(*   - strength is the exact fraction num/den (den > 0).                   *)
(* A float that may be not-a-number is <<>> (nan) or <<x>> (the number x); *)
(* an Optional value of the program is <<>> (None) or <<v>>.               *)
(***************************************************************************)
EXTENDS Integers, Sequences, FiniteSets, TLC

VARIABLES
    DRY_RUN,        \* the configuration switch of line 21
    pc,             \* where main / scan_and_trade stands
    trace,          \* the API calls of the current tick, in order
    acct,           \* get_account()'s result in this cycle (<<>>: None)
    buying_power,   \* float(acct.get("buying_power", 0.0))
    pos,            \* len(list_positions()) in this cycle
    scanned,        \* how many of `symbols` the for loop of line 187 has done
    candidates,     \* the list `candidates` of scan_and_trade
    orders,         \* the bracket orders place_bracket_order posted this cycle
    outcome,        \* which branch (which print) ended the current cycle
    call,           \* pure-function harness: the function applied and its arguments
    ret,            \* pure-function harness: its result (<<>>: not yet applied)
    req,            \* the state of one _req call: tries, attempts made, back-offs
    posts,          \* the HTTP outcomes of this cycle's order POST attempts, in order
    decision,       \* the ideas the loop of line 196 acted on (printed at line 201)
    clock,          \* is_open()'s get_clock() result in this tick, <<>> before it
    slept,          \* the seconds of the last time.sleep of main, 0 once a tick starts
    held            \* the open positions at the brokerage (closed-loop runs only)

vars == <<DRY_RUN, pc, trace, acct, buying_power, pos, scanned, candidates,
          orders, outcome, call, ret, req, posts, decision, clock, slept, held>>

cycleVars == <<DRY_RUN, pc, trace, acct, buying_power, pos, scanned, candidates,
               orders, outcome, posts, decision, clock, slept, held>>

-----------------------------------------------------------------------------
(* Units and the tuned defaults of lines 11-21.                            *)

ATR_N == 14
CENT == ATR_N
DOLLAR == 100 * CENT

MAX_SYMBOLS_PER_SCAN == 40
MAX_CONCURRENT_POS == 5
SCAN_INTERVAL_SEC == 30
\* the argument of the time.sleep of line 224
LOOP_ERROR_SLEEP_SEC == 5
RISK_PCT_PER_TRADE == 1
TAKE_PROFIT_ATR_MULT == 2
STOP_ATR_MULT == 1
MIN_PRICE == 5 * DOLLAR
MAX_PRICE == 800 * DOLLAR
MIN_AVG_VOL == 300000
MIN_BARS == 40
HI_N == 20
VOL_N == 30

UNIVERSE ==
    << "AAPL","MSFT","NVDA","TSLA","AMD","META","AMZN","GOOGL","GOOG","NFLX",
       "AVGO","SMCI","ASML","SHOP","UBER","CRM","ADBE","MU","INTC","COIN",
       "PLTR","SQ","ABNB","DELL","ON","KLAC","LRCX","PANW","NOW","ANET",
       "TTD","SNOW","MDB","BABA","PDD","NIO","LI","RIVN","CVNA","DDOG",
       "CRWD","NET","ZS","OKTA","ARM","SOFI","UAL","JPM","BAC","CAT" >>

(* Bounds of the model. *)
MaxIndLen == 3
ScanWidth == 2      \* the scan is cut to this many symbols of the universe
MaxExtraBars == 1   \* bar histories have up to MIN_BARS + MaxExtraBars bars
MaxOverCap == 1     \* open positions range up to MAX_CONCURRENT_POS + MaxOverCap

-----------------------------------------------------------------------------
(* Python's list and number helpers.                                       *)

Min(a, b) == IF a < b THEN a ELSE b
Max(a, b) == IF a > b THEN a ELSE b
Abs(a) == IF a < 0 THEN -a ELSE a

\* values[-n:]
LastN(s, n) == SubSeq(s, Max(1, Len(s) - n + 1), Len(s))
\* values[:-1]
Front(s) == SubSeq(s, 1, Len(s) - 1)
\* values[-n:-1]
LastNButOne(s, n) == SubSeq(s, Max(1, Len(s) - n + 1), Len(s) - 1)

RECURSIVE SumSeq(_)
SumSeq(s) == IF s = <<>> THEN 0 ELSE s[1] + SumSeq(Tail(s))

RECURSIVE MaxSeq(_)
MaxSeq(s) == IF Len(s) = 1 THEN s[1] ELSE Max(s[1], MaxSeq(Tail(s)))

\* float("nan") and the test a != a
NaN == <<>>
Num(x) == <<x>>
IsNaN(f) == f = NaN
Val(f) == f[1]
\* x > f for a float f: every comparison with nan is false
GtFloat(x, f) == (~IsNaN(f)) /\ x > Val(f)

None == <<>>
Some(v) == <<v>>

\* round(x, 2) of a price x given in units: to the nearest cent, a tie to the even cent
round2(x) ==
    LET q == x \div CENT
        r == x % CENT
    IN  IF 2 * r < CENT THEN q * CENT
        ELSE IF 2 * r > CENT THEN (q + 1) * CENT
        ELSE IF q % 2 = 0 THEN q * CENT ELSE (q + 1) * CENT

-----------------------------------------------------------------------------
(* Indicators, lines 99-115.                                               *)

sma(values, n) ==
    IF Len(values) < n THEN NaN ELSE Num(SumSeq(LastN(values, n)) \div n)

highest(values, n) ==
    IF Len(values) < n THEN NaN ELSE Num(MaxSeq(LastN(values, n)))

\* the list trs of lines 109-113: one true range per bar from the second on
TrueRanges(highs, lows, closes) ==
    [j \in 1..(Len(closes) - 1) |->
        LET h == highs[j + 1]
            l == lows[j + 1]
            pc0 == closes[j]
        IN  Max(h - l, Max(Abs(h - pc0), Abs(l - pc0)))]

\* lines 108-111: past the length test on closes, the loop reads highs[i] and
\* lows[i] for every i in range(1, len(closes)); a list too short for that index
\* raises IndexError
atr_raises(highs, lows, closes, n) ==
    /\ ~(Len(closes) < n + 1)
    /\ \E i \in 2..Len(closes) : i > Len(highs) \/ i > Len(lows)

atr(highs, lows, closes, n) ==
    IF Len(closes) < n + 1 THEN NaN
    ELSE LET trs == TrueRanges(highs, lows, closes)
         IN  IF Len(trs) < n THEN NaN
             ELSE Num(SumSeq(LastN(trs, n)) \div n)

-----------------------------------------------------------------------------
(* Strategy, lines 118-157.  A bar is [h, l, c, v]; bars is get_bars'      *)
(* result (<<>>: None or an empty list), snap is get_snapshot's result     *)
(* (<<>>: None, else <<[trading_status |-> s]>>).                          *)

Bar(h, l, c, v) == [h |-> h, l |-> l, c |-> c, v |-> v]

\* lines 122-125
closes_of(bars) == [i \in 1..Len(bars) |-> bars[i].c]
highs_of(bars) == [i \in 1..Len(bars) |-> bars[i].h]
lows_of(bars) == [i \in 1..Len(bars) |-> bars[i].l]
vols_of(bars) == [i \in 1..Len(bars) |-> bars[i].v]

\* line 120
enough_bars(bars) == ~(bars = <<>> \/ Len(bars) < MIN_BARS)

\* line 128
price_in_band(last) == MIN_PRICE <= last /\ last <= MAX_PRICE

\* line 130: sum(vols[-30:]) / min(30, len(vols))
avg_volume(vols) == SumSeq(LastN(vols, VOL_N)) \div Min(VOL_N, Len(vols))

\* line 134: vols[-1] > 1.5 * (sum(vols[-21:-1]) / 20 if len(vols) > 21 else avg_vol)
vol_surge(vols, avg_vol) ==
    2 * vols[Len(vols)] >
        3 * (IF Len(vols) > HI_N + 1
             THEN SumSeq(LastNButOne(vols, HI_N + 1)) \div HI_N
             ELSE avg_vol)

\* line 135, with `or` for `and`
is_breakout_or(last, hi20, surge) == GtFloat(last, hi20) \/ surge

\* line 135
is_breakout(last, hi20, surge) == GtFloat(last, hi20) /\ surge

\* lines 145-146, forgetting the status T1
snapshot_ok_halted_only(snap) ==
    /\ snap # None
    /\ snap[1].trading_status # "Halted"

\* lines 145-146
snapshot_ok(snap) ==
    /\ snap # None
    /\ snap[1].trading_status \notin {"Halted", "T1"}

\* whether the pipeline gets as far as line 144, the snapshot fetch
reaches_snapshot(bars) ==
    /\ enough_bars(bars)
    /\ LET closes == closes_of(bars)
           highs == highs_of(bars)
           lows == lows_of(bars)
           vols == vols_of(bars)
           last == closes[Len(closes)]
           avg_vol == avg_volume(vols)
       IN  /\ price_in_band(last)
           /\ ~(avg_vol < MIN_AVG_VOL)
           /\ is_breakout(last, highest(Front(highs), HI_N), vol_surge(vols, avg_vol))
           /\ ~IsNaN(atr(highs, lows, closes, ATR_N))

analyze_symbol(symbol, bars, snap) ==
    IF ~reaches_snapshot(bars) THEN None
    ELSE IF ~snapshot_ok(snap) THEN None
    ELSE LET closes == closes_of(bars)
             highs == highs_of(bars)
             lows == lows_of(bars)
             vols == vols_of(bars)
             last == closes[Len(closes)]
             hi20 == Val(highest(Front(highs), HI_N))
             a == Val(atr(highs, lows, closes, ATR_N))
         IN  Some([symbol |-> symbol,
                   entry |-> last,
                   stop |-> last - STOP_ATR_MULT * a,
                   take |-> last + TAKE_PROFIT_ATR_MULT * a,
                   atr |-> a,
                   avg_vol |-> avg_volume(vols),
                   strength |-> [num |-> last - hi20, den |-> Max(CENT, a)]])

-----------------------------------------------------------------------------
(* Risk, lines 160-166.  risk_pct is in percent.                           *)

\* lines 160-166 without the clamp of lines 164-165
position_size_no_clamp(bp, entry, stop, risk_pct) ==
    LET per_share_risk == Max(CENT, entry - stop)
        shares == (bp * risk_pct) \div (100 * per_share_risk)
    IN  Max(0, shares)

position_size(bp, entry, stop, risk_pct) ==
    LET per_share_risk == Max(CENT, entry - stop)
        shares == (bp * risk_pct) \div (100 * per_share_risk)
        clamped == IF shares * entry > bp THEN bp \div entry ELSE shares
    IN  Max(0, clamped)

-----------------------------------------------------------------------------
(* HTTP helpers, lines 32-60.  One attempt of _req is one call of          *)
(* requests.request; what it meets is one of HttpOutcomes:                 *)
(*   "ok"          a 2xx response whose body is JSON                       *)
(*   "bad_body"    a 2xx response whose body r.json() cannot decode        *)
(*   "429"         a rate-limit response                                   *)
(*   "client_err"  another 4xx response, "server_err" a 5xx response       *)
(*   "timeout"     no response within 20 s, "conn_err" no connection       *)
(* The state of a call is [method, tries, attempts, waits, state, result]: *)
(* attempts are the outcomes met so far, waits the time.sleep arguments,   *)
(* result is what get_json / post_json hands to its caller.                *)
(***************************************************************************)
HttpOutcomes == {"ok", "bad_body", "429", "client_err", "server_err",
                 "timeout", "conn_err"}

\* line 34
MAX_TRIES == 3

\* line 34, with <= for <
req_in_budget_le(tries) == tries <= MAX_TRIES

\* line 34: while tries < 3
req_in_budget(tries) == tries < MAX_TRIES

\* line 37, taking every HTTP error status for a rate limit
req_retries_on_error(o) == o \in {"429", "client_err", "server_err"}

\* line 37: r.status_code == 429
req_retries(o) == o = "429"

\* line 38: wait = 2 ** tries
backoff(tries) == 2 ^ tries

\* lines 43-51 and the r.json() of lines 56 and 60: what the caller of get_json /
\* post_json gets when the attempt met o and o is final
json_result(o) ==
    IF o = "ok" THEN "payload"
    ELSE IF o = "bad_body" THEN "raised"
    ELSE "none"

\* lines 55 and 59: the call of _req, and line 33
req_start(method) ==
    [method |-> method, tries |-> 0, attempts |-> <<>>, waits |-> <<>>,
     state |-> "loop", result |-> "pending"]

\* lines 35-51: one pass through the body of the while loop, meeting outcome o
req_attempt(rq, o) ==
    IF req_retries(o)
    THEN [rq EXCEPT !.attempts = Append(@, o),
                    !.waits = Append(@, backoff(rq.tries)),
                    !.tries = @ + 1]
    ELSE [rq EXCEPT !.attempts = Append(@, o),
                    !.state = "returned",
                    !.result = json_result(o)]

\* line 52: the loop condition failed; _req returns None and so does its caller
req_exhausted(rq) == [rq EXCEPT !.state = "returned", !.result = "none"]

\* the result of a call as the trace of a cycle records it
res_of_result(result) ==
    IF result = "payload" THEN "ok"
    ELSE IF result = "raised" THEN "raise"
    ELSE "none"

\* every complete run of the call from state rq on: the set of its final states
RECURSIVE req_runs(_)
req_runs(rq) ==
    IF rq.state = "returned" THEN {rq}
    ELSE IF req_in_budget(rq.tries)
         THEN UNION {req_runs(req_attempt(rq, o)) : o \in HttpOutcomes}
         ELSE {req_exhausted(rq)}

-----------------------------------------------------------------------------
(* Alpaca wrappers, lines 63-96.                                           *)

\* line 68 without the test of the is_open field
is_open_if_present(c) == c # None

\* bool(c and c.get("is_open", False)), line 68
is_open(c) == c # None /\ c[1].is_open

\* lines 74-75: len of (res if isinstance(res, list) else []); a list of n
\* opaque position records is <<n>>
list_positions(res) == IF res = None THEN 0 ELSE res[1]

\* the payload of lines 86-95
place_bracket_order(symbol, qty, stop_price, take_profit_price) ==
    [symbol |-> symbol,
     qty |-> qty,
     take_profit |-> round2(take_profit_price),
     stop_loss |-> round2(stop_price)]

-----------------------------------------------------------------------------
(* scan_and_trade, lines 169-207.                                          *)

symbols == SubSeq(UNIVERSE, 1, Min(MAX_SYMBOLS_PER_SCAN, ScanWidth))

\* lines 171-174, forgetting the trading_blocked test
account_usable_unblocked(a) == a # None

\* lines 171-174: neither `not acct` nor acct.get("trading_blocked")
account_usable(a) == a # None /\ ~a[1].trading_blocked

\* line 181, with > for >=
at_position_cap_gt(n) == n > MAX_CONCURRENT_POS

\* line 181
at_position_cap(n) == n >= MAX_CONCURRENT_POS

\* x["strength"] >= y["strength"], on the exact fractions
StrengthGe(x, y) == x.strength.num * y.strength.den >= y.strength.num * x.strength.den
StrengthGt(x, y) == x.strength.num * y.strength.den > y.strength.num * x.strength.den

\* an ascending sort: reverse=True forgotten
RECURSIVE sort_candidates_ascending(_)
sort_candidates_ascending(cs) ==
    IF cs = <<>> THEN <<>>
    ELSE LET rest == sort_candidates_ascending(Front(cs))
             x == cs[Len(cs)]
             k == Cardinality({i \in 1..Len(rest) : StrengthGe(x, rest[i])})
         IN  SubSeq(rest, 1, k) \o <<x>> \o SubSeq(rest, k + 1, Len(rest))

\* line 194: candidates.sort(key=strength, reverse=True); the sort is stable, so
\* each element goes behind those that came before it and are not weaker
RECURSIVE sort_candidates(_)
sort_candidates(cs) ==
    IF cs = <<>> THEN <<>>
    ELSE LET rest == sort_candidates(Front(cs))
             x == cs[Len(cs)]
             k == Cardinality({i \in 1..Len(rest) : StrengthGe(rest[i], x)})
         IN  SubSeq(rest, 1, k) \o <<x>> \o SubSeq(rest, k + 1, Len(rest))

\* line 197
qty_of(idea, bp) == position_size(bp, idea.entry, idea.stop, RISK_PCT_PER_TRADE)

\* the for loop of lines 196-207 without its break: every viable idea is acted on
RECURSIVE dispatch_no_break(_, _)
dispatch_no_break(ranked, bp) ==
    IF ranked = <<>> THEN <<>>
    ELSE IF qty_of(ranked[1], bp) <= 0 THEN dispatch_no_break(Tail(ranked), bp)
    ELSE <<ranked[1]>> \o dispatch_no_break(Tail(ranked), bp)

\* the for loop of lines 196-207: the ideas it acts on, which is the first one
\* whose quantity is positive, or none
RECURSIVE dispatch(_, _)
dispatch(ranked, bp) ==
    IF ranked = <<>> THEN <<>>
    ELSE IF qty_of(ranked[1], bp) <= 0 THEN dispatch(Tail(ranked), bp)
    ELSE <<ranked[1]>>

\* lines 202-205 with the test of DRY_RUN left out
sends_order_always(dry_run) == TRUE

\* lines 202-205: the order is placed in the else branch of `if DRY_RUN`
sends_order(dry_run) == ~dry_run

-----------------------------------------------------------------------------
(* What the brokerage may answer.  A read that returns None is <<>>; a     *)
(* read whose body cannot be decoded, or whose payload is malformed,       *)
(* raises, and is a separate branch of each action.                        *)

\* one API call of the tick: res is "ok" (a payload), "none" or "raise"
Call(op, sym, res) == [op |-> op, sym |-> sym, res |-> res]
ResOf(r) == IF r = None THEN "none" ELSE "ok"

ClockResponses == {None, Some([is_open |-> TRUE]), Some([is_open |-> FALSE])}

BuyingPowers == {0, 5 * DOLLAR, 100 * DOLLAR, 1000 * DOLLAR}

AccountResponses ==
    {None} \cup {Some([trading_blocked |-> b, buying_power |-> bp]) :
                    b \in BOOLEAN, bp \in BuyingPowers}

PositionResponses ==
    {None} \cup {Some(n) : n \in {0} \cup
                    ((MAX_CONCURRENT_POS - 1)..(MAX_CONCURRENT_POS + MaxOverCap))}

SnapshotResponses ==
    {None} \cup {Some([trading_status |-> st]) : st \in {"Normal", "Halted", "T1"}}

\* n bars: n - 1 times `base`, then `last`
History(n, base, last) == [i \in 1..n |-> IF i < n THEN base ELSE last]

BaseVol == MIN_AVG_VOL
SurgeVol == 2 * MIN_AVG_VOL
P10 == 10 * DOLLAR

FlatBase == Bar(P10, P10, P10, BaseVol)
MidBase == Bar(P10, P10 - 20 * CENT, P10, BaseVol)
WideBase == Bar(P10, P10 - 2 * DOLLAR, P10, BaseVol)

\* the bar histories a cycle may be served
HTight == History(MIN_BARS, FlatBase, Bar(P10 + 10 * CENT, P10, P10 + 10 * CENT, SurgeVol))
HSubCent == History(MIN_BARS, FlatBase, Bar(P10 + CENT, P10, P10 + CENT, SurgeVol))
HZeroAtr == History(MIN_BARS, FlatBase, Bar(P10, P10, P10 + 10 * CENT, SurgeVol))
HMid == History(MIN_BARS, MidBase, Bar(P10 + 50 * CENT, P10, P10 + 50 * CENT, SurgeVol))
HWideStrong == History(MIN_BARS, WideBase, Bar(2 * P10, P10, 2 * P10, SurgeVol))
HNoBreakout == History(MIN_BARS, FlatBase, FlatBase)
HShort == History(MIN_BARS - 1, FlatBase, Bar(P10 + 10 * CENT, P10, P10 + 10 * CENT, SurgeVol))

CycleBars == {None, HTight, HSubCent, HZeroAtr, HMid, HWideStrong, HNoBreakout, HShort}

NoCall == [fn |-> "none"]
ReqIdle == [state |-> "idle"]

\* lines 220 and 224 with the scan interval in both places
sleep_seconds_fixed(failed) == SCAN_INTERVAL_SEC

\* the seconds main sleeps before the next tick: time.sleep(SCAN_INTERVAL_SEC) at
\* the end of the try block (line 220), time.sleep(5) in the handler of an
\* exception caught at the loop boundary (line 224)
sleep_seconds(failed) == IF failed THEN LOOP_ERROR_SLEEP_SEC ELSE SCAN_INTERVAL_SEC

-----------------------------------------------------------------------------
(* main, lines 209-224, and the steps of scan_and_trade.                   *)

Init ==
    /\ DRY_RUN \in BOOLEAN
    /\ pc = "startup"
    /\ trace = <<>>
    /\ acct = None
    /\ buying_power = 0
    /\ pos = 0
    /\ scanned = 0
    /\ candidates = <<>>
    /\ orders = <<>>
    /\ outcome = ""
    /\ call = NoCall
    /\ ret = <<>>
    /\ req = ReqIdle
    /\ posts = <<>>
    /\ decision = <<>>
    /\ clock = <<>>
    /\ slept = 0
    /\ held = 0

\* lines 210-215: the banner and the first get_clock(), outside the try
Startup ==
    /\ pc = "startup"
    /\ \/ \E c \in ClockResponses :
            /\ trace' = <<Call("clock", "", ResOf(c))>>
            /\ pc' = "tick"
       \/ /\ trace' = <<Call("clock", "", "raise")>>
          /\ pc' = "crashed"
    /\ UNCHANGED <<DRY_RUN, acct, buying_power, pos, scanned, candidates, orders,
                   outcome, call, ret,
                   req, posts, decision, clock, slept, held>>

\* lines 216-219: the top of the loop and is_open()
Tick ==
    /\ pc = "tick"
    /\ acct' = None
    /\ buying_power' = 0
    /\ pos' = 0
    /\ scanned' = 0
    /\ candidates' = <<>>
    /\ orders' = <<>>
    /\ posts' = <<>>
    /\ decision' = <<>>
    /\ slept' = 0
    /\ \/ \E c \in ClockResponses :
            /\ trace' = <<Call("clock", "", ResOf(c))>>
            /\ clock' = <<c>>
            /\ IF is_open(c)
               THEN pc' = "account" /\ outcome' = ""
               ELSE pc' = "sleep" /\ outcome' = "market_closed"
       \/ /\ trace' = <<Call("clock", "", "raise")>>
          /\ clock' = <<>>
          /\ pc' = "recover"
          /\ outcome' = "loop_error"
    /\ UNCHANGED <<DRY_RUN, call, ret, req, held>>

\* lines 170-178
GetAccount ==
    /\ pc = "account"
    /\ \/ \E a \in AccountResponses :
            /\ trace' = Append(trace, Call("account", "", ResOf(a)))
            /\ acct' = a
            /\ IF account_usable(a)
               THEN /\ buying_power' = a[1].buying_power
                    /\ pc' = "positions"
                    /\ outcome' = ""
               ELSE /\ buying_power' = 0
                    /\ pc' = "sleep"
                    /\ outcome' = IF a = None THEN "no_account" ELSE "blocked"
       \/ /\ trace' = Append(trace, Call("account", "", "raise"))
          /\ pc' = "recover"
          /\ outcome' = "loop_error"
          /\ UNCHANGED <<acct, buying_power>>
    /\ UNCHANGED <<DRY_RUN, pos, scanned, candidates, orders, call, ret,
                   req, posts, decision, clock, slept, held>>

\* lines 180-185
ListPositionsFrom(responses, may_raise) ==
    /\ pc = "positions"
    /\ \/ \E r \in responses :
            /\ trace' = Append(trace, Call("positions", "", ResOf(r)))
            /\ pos' = list_positions(r)
            /\ IF at_position_cap(list_positions(r))
               THEN pc' = "sleep" /\ outcome' = "at_cap"
               ELSE pc' = "scan" /\ outcome' = ""
       \/ /\ may_raise
          /\ trace' = Append(trace, Call("positions", "", "raise"))
          /\ pc' = "recover"
          /\ outcome' = "loop_error"
          /\ UNCHANGED pos
    /\ UNCHANGED <<DRY_RUN, acct, buying_power, scanned, candidates, orders, call, ret,
                   req, posts, decision, clock, slept, held>>

\* the positions read answers anything, or fails
ListPositions == ListPositionsFrom(PositionResponses, TRUE)

\* lines 187-189: one turn of the for loop, that is one analyze_symbol(s)
AnalyzeNext ==
    /\ pc = "scan"
    /\ scanned < Len(symbols)
    /\ LET s == symbols[scanned + 1] IN
       \/ \E bars \in CycleBars, snap \in SnapshotResponses :
            /\ trace' = trace \o <<Call("bars", s, ResOf(bars))>>
                              \o (IF reaches_snapshot(bars)
                                  THEN <<Call("snapshot", s, ResOf(snap))>>
                                  ELSE <<>>)
            /\ candidates' = candidates \o analyze_symbol(s, bars, snap)
            /\ scanned' = scanned + 1
            /\ UNCHANGED <<pc, outcome>>
       \/ /\ trace' = Append(trace, Call("bars", s, "raise"))
          /\ pc' = "recover"
          /\ outcome' = "loop_error"
          /\ UNCHANGED <<candidates, scanned>>
       \/ \E bars \in CycleBars :
            /\ reaches_snapshot(bars)
            /\ trace' = trace \o <<Call("bars", s, "ok"), Call("snapshot", s, "raise")>>
            /\ pc' = "recover"
            /\ outcome' = "loop_error"
            /\ UNCHANGED <<candidates, scanned>>
    /\ UNCHANGED <<DRY_RUN, acct, buying_power, pos, orders, call, ret,
                   req, posts, decision, clock, slept, held>>

\* lines 191-207: the end of the scan, the sort and the dispatch loop
RankAndDispatchAt(brokerage) ==
    /\ pc = "scan"
    /\ scanned = Len(symbols)
    /\ LET ranked == sort_candidates(candidates)
           acted == dispatch(ranked, buying_power)
           sent == [i \in 1..Len(acted) |->
                       place_bracket_order(acted[i].symbol, qty_of(acted[i], buying_power),
                                           acted[i].stop, acted[i].take)]
       IN  /\ candidates' = ranked
           /\ decision' = [i \in 1..Len(acted) |->
                              [symbol |-> acted[i].symbol,
                               qty |-> qty_of(acted[i], buying_power)]]
           /\ \/ /\ candidates = <<>>
                 /\ outcome' = "no_breakouts"
                 /\ pc' = "sleep"
                 /\ UNCHANGED <<orders, trace, posts>>
              \/ /\ candidates # <<>>
                 /\ acted = <<>>
                 /\ outcome' = "all_size_zero"
                 /\ pc' = "sleep"
                 /\ UNCHANGED <<orders, trace, posts>>
              \/ /\ acted # <<>>
                 /\ ~sends_order(DRY_RUN)
                 /\ outcome' = "dry_run"
                 /\ pc' = "sleep"
                 /\ UNCHANGED <<orders, trace, posts>>
              \/ /\ acted # <<>>
                 /\ sends_order(DRY_RUN)
                 /\ orders' = sent
                 /\ \E run \in req_runs(req_start("POST")) :
                      /\ posts' = run.attempts
                      /\ trace' = trace \o [i \in 1..Len(sent) |->
                                               Call("order", sent[i].symbol,
                                                    res_of_result(run.result))]
                      /\ IF run.result = "raised"
                         THEN pc' = "recover" /\ outcome' = "loop_error"
                         ELSE pc' = "sleep" /\ outcome' = "ordered"
    /\ held' = IF brokerage THEN held + Len(orders') ELSE held
    /\ UNCHANGED <<DRY_RUN, acct, buying_power, pos, scanned, call, ret,
                   req, clock, slept>>

\* the brokerage's book of positions is not followed
RankAndDispatch == RankAndDispatchAt(FALSE)

\* line 220: time.sleep(SCAN_INTERVAL_SEC)
Sleep ==
    /\ pc = "sleep"
    /\ pc' = "tick"
    /\ slept' = sleep_seconds(FALSE)
    /\ UNCHANGED <<DRY_RUN, trace, acct, buying_power, pos, scanned, candidates,
                   orders, outcome, call, ret,
                   req, posts, decision, clock, held>>

\* lines 223-224: the loop's except Exception and its time.sleep(5)
Recover ==
    /\ pc = "recover"
    /\ pc' = "tick"
    /\ slept' = sleep_seconds(TRUE)
    /\ UNCHANGED <<DRY_RUN, trace, acct, buying_power, pos, scanned, candidates,
                   orders, outcome, call, ret,
                   req, posts, decision, clock, held>>

\* lines 221-222: KeyboardInterrupt
Interrupt ==
    /\ pc \in {"tick", "account", "positions", "scan", "sleep", "recover"}
    /\ pc' = "stopped"
    /\ UNCHANGED <<DRY_RUN, trace, acct, buying_power, pos, scanned, candidates,
                   orders, outcome, call, ret,
                   req, posts, decision, clock, slept, held>>

Next ==
    \/ Startup
    \/ Tick
    \/ GetAccount
    \/ ListPositions
    \/ AnalyzeNext
    \/ RankAndDispatch
    \/ Sleep
    \/ Recover
    \/ Interrupt

Spec == Init /\ [][Next]_vars

-----------------------------------------------------------------------------
(* analyze_symbol applied to a family of bar histories: n - 1 equal bars   *)
(* and a last bar, of every combination of the values below, with every    *)
(* snapshot.                                                               *)

\* the cycle's variables while a function is applied on its own
CycleOff ==
    /\ DRY_RUN = FALSE
    /\ pc = "off"
    /\ trace = <<>>
    /\ acct = None
    /\ buying_power = 0
    /\ pos = 0
    /\ scanned = 0
    /\ candidates = <<>>
    /\ orders = <<>>
    /\ outcome = ""
    /\ posts = <<>>
    /\ decision = <<>>
    /\ clock = <<>>
    /\ slept = 0
    /\ held = 0

HistLens == (MIN_BARS - 1)..(MIN_BARS + MaxExtraBars)
BasePrices == {4 * DOLLAR, 10 * DOLLAR, 801 * DOLLAR}
BaseRanges == {0, 20 * CENT}
BaseVols == {MIN_AVG_VOL - 60000, MIN_AVG_VOL}
LastHighs == {0, CENT, 10 * CENT}
LastLows == {0, 20 * CENT}
LastCloses == {0, CENT, 10 * CENT}
LastVols == {MIN_AVG_VOL, 3 * (MIN_AVG_VOL \div 2), 2 * MIN_AVG_VOL}

AnalyzeBars ==
    {History(t[1], Bar(t[2], t[2] - t[3], t[2], t[4]),
                   Bar(t[2] + t[5], t[2] - t[6], t[2] + t[7], t[8])) :
        t \in HistLens \X BasePrices \X BaseRanges \X BaseVols
              \X LastHighs \X LastLows \X LastCloses \X LastVols}

InitAnalyze ==
    /\ CycleOff
    /\ call \in {[fn |-> "analyze_symbol", bars |-> b, snap |-> sn] :
                    b \in AnalyzeBars \cup {None}, sn \in SnapshotResponses}
    /\ ret = <<>>
    /\ req = ReqIdle

ApplyAnalyze ==
    /\ call.fn = "analyze_symbol"
    /\ ret = <<>>
    /\ ret' = <<analyze_symbol(UNIVERSE[1], call.bars, call.snap)>>
    /\ UNCHANGED <<cycleVars, call, req>>

NextAnalyze == ApplyAnalyze

SpecAnalyze == InitAnalyze /\ [][NextAnalyze]_vars

-----------------------------------------------------------------------------
(* position_size applied to every combination of the values below.         *)

SizeBuyingPowers == {0, 5 * DOLLAR, 100 * DOLLAR, 500 * DOLLAR}
SizeEntries == {0 - DOLLAR, 0, CENT, 10 * DOLLAR, 20 * DOLLAR}
SizeStops == {0, 9 * DOLLAR, 10 * DOLLAR, 25 * DOLLAR}
SizeRiskPcts == {0, 1, 2, 100}

InitSize ==
    /\ CycleOff
    /\ call \in {[fn |-> "position_size", buying_power |-> bp, entry |-> e,
                  stop |-> st, risk_pct |-> r] :
                    bp \in SizeBuyingPowers, e \in SizeEntries,
                    st \in SizeStops, r \in SizeRiskPcts}
    /\ ret = <<>>
    /\ req = ReqIdle

ApplySize ==
    /\ call.fn = "position_size"
    /\ ret = <<>>
    /\ ret' = <<position_size(call.buying_power, call.entry, call.stop, call.risk_pct)>>
    /\ UNCHANGED <<cycleVars, call, req>>

NextSize == ApplySize

SpecSize == InitSize /\ [][NextSize]_vars

-----------------------------------------------------------------------------
(* sma, highest and atr applied to every list of at most MaxIndLen numbers *)
(* and every window n of IndWindows.  The numbers are multiples of every   *)
(* window, so that the division by n is exact.                             *)

IndWindows == {1, 2}
IndNumbers == {0, 2 * CENT, 6 * CENT}
AtrNumbers == {0, 2 * CENT}
ListsOf(S) == UNION {[1..k -> S] : k \in 0..MaxIndLen}

InitInd ==
    /\ CycleOff
    /\ \/ call \in {[fn |-> f, values |-> v, n |-> n] :
                       f \in {"sma", "highest"}, v \in ListsOf(IndNumbers),
                       n \in IndWindows}
       \/ call \in {[fn |-> "atr", highs |-> h, lows |-> l, closes |-> c, n |-> n] :
                       h \in ListsOf(AtrNumbers), l \in ListsOf(AtrNumbers),
                       c \in ListsOf(AtrNumbers), n \in IndWindows}
    /\ ret = <<>>
    /\ req = ReqIdle

\* the call completes: it raises, or returns a float
ApplyInd ==
    /\ call.fn \in {"sma", "highest", "atr"}
    /\ ret = <<>>
    /\ ret' = IF call.fn = "sma"
              THEN <<[raised |-> FALSE, value |-> sma(call.values, call.n)]>>
              ELSE IF call.fn = "highest"
              THEN <<[raised |-> FALSE, value |-> highest(call.values, call.n)]>>
              ELSE IF atr_raises(call.highs, call.lows, call.closes, call.n)
              THEN <<[raised |-> TRUE, value |-> NaN]>>
              ELSE <<[raised |-> FALSE,
                      value |-> atr(call.highs, call.lows, call.closes, call.n)]>>
    /\ UNCHANGED <<cycleVars, call, req>>

NextInd == ApplyInd

SpecInd == InitInd /\ [][NextInd]_vars

IndApplied == call.fn \in {"sma", "highest", "atr"} /\ ret # <<>>

\* the history is shorter than the function's minimum
TooShort ==
    IF call.fn = "atr" THEN Len(call.closes) < call.n + 1
    ELSE Len(call.values) < call.n

\* C17: sma and highest return nan whenever len(values) < n, atr returns nan
\* whenever len(closes) < n + 1; none of the three raises an error for any input
\* sequences, and they return a number otherwise.
C17_IndicatorsTotalWithSentinel ==
    IndApplied =>
        /\ ~ret[1].raised
        /\ TooShort <=> IsNaN(ret[1].value)

-----------------------------------------------------------------------------
(* The loop together with the brokerage's book of open positions: the      *)
(* positions read answers the number held and does not fail, every order   *)
(* sent becomes a position at once, nobody else opens positions, and a     *)
(* position may be closed (by its stop or its target) at any time.         *)

InitClosed ==
    /\ DRY_RUN \in BOOLEAN
    /\ pc = "startup"
    /\ trace = <<>>
    /\ acct = None
    /\ buying_power = 0
    /\ pos = 0
    /\ scanned = 0
    /\ candidates = <<>>
    /\ orders = <<>>
    /\ outcome = ""
    /\ call = NoCall
    /\ ret = <<>>
    /\ req = ReqIdle
    /\ posts = <<>>
    /\ decision = <<>>
    /\ clock = <<>>
    /\ slept = 0
    /\ held \in 0..MAX_CONCURRENT_POS

\* lines 180-185, answered from the book
ClosedListPositions == ListPositionsFrom({Some(held)}, FALSE)

\* lines 191-207, every order sent being added to the book
ClosedRankAndDispatch == RankAndDispatchAt(TRUE)

\* a bracket order's stop or target is hit
PositionCloses ==
    /\ held > 0
    /\ pc \in {"tick", "account", "positions", "scan", "sleep", "recover"}
    /\ held' = held - 1
    /\ UNCHANGED <<DRY_RUN, pc, trace, acct, buying_power, pos, scanned, candidates,
                   orders, outcome, call, ret, req, posts, decision, clock, slept>>

NextClosed ==
    \/ Startup
    \/ Tick
    \/ GetAccount
    \/ ClosedListPositions
    \/ AnalyzeNext
    \/ ClosedRankAndDispatch
    \/ Sleep
    \/ Recover
    \/ Interrupt
    \/ PositionCloses

SpecClosed == InitClosed /\ [][NextClosed]_vars

-----------------------------------------------------------------------------
(* Properties of one cycle, checked under Spec.                            *)

TraceOps == {trace[i].op : i \in DOMAIN trace}
CallsOf(op) == {i \in DOMAIN trace : trace[i].op = op}
Viable(c) == qty_of(c, buying_power) > 0
ViableCandidates == {i \in DOMAIN candidates : Viable(candidates[i])}

\* the cycle got as far as the dispatch loop of lines 196-207
Dispatched == outcome \in {"all_size_zero", "dry_run", "ordered"} \/ orders # <<>>

\* the account read of this cycle returned None or a blocked account
AccountRefused ==
    /\ \E i \in CallsOf("account") : trace[i].res # "raise"
    /\ (acct = None \/ acct[1].trading_blocked)

\* C1: in every cycle place_bracket_order is invoked at most once, however many
\* symbols qualify.
C1_AtMostOneOrderPerCycle ==
    /\ Len(orders) <= 1
    /\ Cardinality(CallsOf("order")) <= 1

\* a cycle in which two candidates had a positive quantity and one order went out
C1_Witness ==
    /\ Cardinality(ViableCandidates) >= 2
    /\ Len(orders) = 1
    /\ Cardinality(CallsOf("order")) = 1

C3_AtCapNoScanNoOrder ==
    (CallsOf("positions") # {} /\ pos >= MAX_CONCURRENT_POS) =>
        /\ TraceOps \cap {"bars", "snapshot", "order"} = {}
        /\ scanned = 0
        /\ candidates = <<>>
        /\ orders = <<>>

\* a cycle that fetched exactly MAX_CONCURRENT_POS positions and ended there
C3_Witness ==
    /\ pos = MAX_CONCURRENT_POS
    /\ outcome = "at_cap"
    /\ pc = "sleep"
    /\ TraceOps = {"clock", "account", "positions"}

\* C4: if the account fetch returns none or a trading-blocked account, the cycle ends
\* at once, with no positions fetch, no screening and no order, and the loop goes on
\* (to its sleep and its next tick, unless interrupted).
C4_AccountRefusedEndsCycle ==
    AccountRefused =>
        /\ TraceOps = {"clock", "account"}
        /\ scanned = 0
        /\ candidates = <<>>
        /\ orders = <<>>
        /\ pc \in {"sleep", "tick", "stopped"}
        /\ outcome \in {"no_account", "blocked"}

\* a blocked account was fetched, and the loop has reached its next tick
C4_Witness ==
    /\ AccountRefused
    /\ acct # None
    /\ acct[1].trading_blocked
    /\ acct[1].buying_power > 0
    /\ pc = "tick"

\* C5: a read that returns none yields no actionable data: no order in a cycle whose
\* clock, account or positions read failed, no candidate for a symbol whose bars or
\* snapshot read failed.
C5_FailedReadNoAction ==
    /\ \A i \in DOMAIN trace :
         (trace[i].op \in {"clock", "account", "positions"} /\ trace[i].res = "none")
            => orders = <<>>
    /\ \A i \in DOMAIN trace :
         (trace[i].op \in {"bars", "snapshot"} /\ trace[i].res = "none")
            => \A k \in DOMAIN candidates : candidates[k].symbol # trace[i].sym

\* C7: every bracket order sent has its stop price strictly below the entry price of
\* its candidate and its take-profit price strictly above it.
C7_OrdersKeepStopEntryTake ==
    \A i \in DOMAIN orders : \A k \in DOMAIN candidates :
        candidates[k].symbol = orders[i].symbol =>
            /\ candidates[k].stop < candidates[k].entry
            /\ candidates[k].entry < candidates[k].take
            /\ orders[i].stop_loss < candidates[k].entry
            /\ candidates[k].entry < orders[i].take_profit

-----------------------------------------------------------------------------
(* Properties of analyze_symbol, checked under SpecAnalyze, and of         *)
(* position_size, checked under SpecSize.                                  *)

Analyzed == call.fn = "analyze_symbol" /\ ret # <<>>
ReturnedCandidate == Analyzed /\ ret[1] # None

\* the two breakout conditions, read off the bars: the last close is above every
\* high of the 20 bars before the last, and the last volume is above 1.5 times the
\* mean volume of those 20 bars
CloseAbovePriorHighs(b) ==
    \A i \in (Len(b) - HI_N)..(Len(b) - 1) : b[Len(b)].c > b[i].h
VolumeAbovePriorMean(b) ==
    2 * HI_N * b[Len(b)].v > 3 * SumSeq([i \in 1..HI_N |-> b[Len(b) - HI_N - 1 + i].v])

\* C6: every Candidate analyze_symbol returns has stop < entry < take.
C6_CandidateStopEntryTake ==
    ReturnedCandidate =>
        /\ ret[1][1].stop < ret[1][1].entry
        /\ ret[1][1].entry < ret[1][1].take

\* C8: analyze_symbol returns a Candidate only if the last close is strictly above the
\* highest high of the 20 bars before the current one and the current volume is
\* strictly above 1.5 times the average volume of those 20 bars.
C8_CandidateOnlyOnBreakout ==
    ReturnedCandidate =>
        /\ CloseAbovePriorHighs(call.bars)
        /\ VolumeAbovePriorMean(call.bars)

\* a history of 40 bars or more whose volume surges while its last close is not above
\* the prior highs, in band and liquid, was analyzed and rejected
C8_Witness ==
    /\ Analyzed
    /\ ret[1] = None
    /\ call.bars # None
    /\ Len(call.bars) >= MIN_BARS
    /\ price_in_band(call.bars[Len(call.bars)].c)
    /\ VolumeAbovePriorMean(call.bars)
    /\ ~CloseAbovePriorHighs(call.bars)
    /\ snapshot_ok(call.snap)

\* C9: analyze_symbol returns no Candidate for a symbol with fewer than 40 bars, with
\* a missing snapshot or one whose trading status is Halted or T1, or whose ATR(14)
\* or 20-bar high is not a number.
C9_NoCandidateWithoutData ==
    ReturnedCandidate =>
        /\ call.bars # None
        /\ Len(call.bars) >= MIN_BARS
        /\ call.snap # None
        /\ call.snap[1].trading_status \notin {"Halted", "T1"}
        /\ ~IsNaN(atr(highs_of(call.bars), lows_of(call.bars),
                      closes_of(call.bars), ATR_N))
        /\ ~IsNaN(highest(Front(highs_of(call.bars)), HI_N))

\* a breakout that passes every stage on its bars was rejected for the status T1
C9_Witness ==
    /\ Analyzed
    /\ ret[1] = None
    /\ reaches_snapshot(call.bars)
    /\ call.snap # None
    /\ call.snap[1].trading_status = "T1"

\* C10: position_size returns no negative value for non-negative buying_power, entry,
\* stop and risk_pct, and returns 0 whenever entry <= 0.
C10_SizeNonNegativeZeroOnNoEntry ==
    (call.fn = "position_size" /\ ret # <<>>) =>
        /\ (call.buying_power >= 0 /\ call.entry >= 0 /\ call.stop >= 0
                /\ call.risk_pct >= 0) => ret[1] >= 0
        /\ (call.buying_power >= 0 /\ call.stop >= 0 /\ call.risk_pct >= 0
                /\ call.entry <= 0) => ret[1] = 0

SizeApplied == call.fn = "position_size" /\ ret # <<>>

\* C11: for buying_power >= 0, entry > 0, stop < entry and 0 <= risk_pct <= 1 (100
\* percent), the quantity q of position_size keeps both budgets:
\* q * entry <= buying_power and q * (entry - stop) <= buying_power * risk_pct.
C11_SizeWithinBothBudgets ==
    (/\ SizeApplied
     /\ call.buying_power >= 0
     /\ call.entry > 0
     /\ call.stop < call.entry
     /\ call.risk_pct >= 0
     /\ call.risk_pct <= 100) =>
        /\ ret[1] * call.entry <= call.buying_power
        /\ 100 * ret[1] * (call.entry - call.stop) <= call.buying_power * call.risk_pct

\* the risk budget alone would buy more than the capital allows, and the quantity
\* returned is the positive number of shares the capital buys
C11_Witness ==
    /\ SizeApplied
    /\ call.entry > 0
    /\ call.stop < call.entry
    /\ call.risk_pct <= 100
    /\ ((call.buying_power * call.risk_pct) \div (100 * (call.entry - call.stop)))
            * call.entry > call.buying_power
    /\ ret[1] > 0
    /\ (ret[1] + 1) * call.entry > call.buying_power

-----------------------------------------------------------------------------
(* Properties of the scheduler loop, checked under Spec.                   *)

\* C12: the process started by main never terminates except on an explicit
\* interrupt: every failure raised while it runs is caught and followed by a
\* recovery sleep and another tick.
C12_OnlyInterruptStopsProcess ==
    /\ pc # "crashed"
    /\ pc \in {"startup", "tick", "account", "positions", "scan", "sleep",
               "recover", "stopped"}
\* the first candidate, in the order of the ranked list, whose quantity is
\* positive, with that quantity; <<>> if there is none
FirstViableIdea ==
    IF ViableCandidates = {} THEN <<>>
    ELSE LET i == CHOOSE k \in ViableCandidates : \A j \in ViableCandidates : k <= j
         IN  <<[symbol |-> candidates[i].symbol,
                qty |-> qty_of(candidates[i], buying_power)]>>

\* C15: with DRY_RUN true no order request is sent in any cycle, and the decision
\* is the same as with DRY_RUN false: the cycle stops at the first candidate in
\* ranked order whose quantity is positive, the one an order goes out for when
\* DRY_RUN is false.
C15_DryRunSameDecisionNoOrder ==
    /\ DRY_RUN => (orders = <<>> /\ posts = <<>> /\ "order" \notin TraceOps)
    /\ Dispatched =>
         /\ \A i, j \in DOMAIN candidates :
              i < j => StrengthGe(candidates[i], candidates[j])
         /\ decision = FirstViableIdea
         /\ ~DRY_RUN => /\ Len(orders) = Len(decision)
                        /\ \A i \in DOMAIN orders :
                             /\ orders[i].symbol = decision[i].symbol
                             /\ orders[i].qty = decision[i].qty

\* a dry run whose strongest candidate sized to zero and which stopped at the next
C15_Witness ==
    /\ DRY_RUN
    /\ outcome = "dry_run"
    /\ Len(candidates) = 2
    /\ ~Viable(candidates[1])
    /\ decision # <<>>
    /\ decision[1].symbol = candidates[2].symbol
    /\ orders = <<>>

\* a tick of the loop is under way or has just ended
InTick == pc \in {"account", "positions", "scan", "sleep", "recover"}

\* scan_and_trade was invoked in this tick: its first statement is get_account()
ScanInvoked == pc \in {"account", "positions", "scan"} \/ "account" \in TraceOps

\* the clock answered in this tick and said the market is open
ClockSaysOpen ==
    /\ clock # <<>>
    /\ clock[1] # None
    /\ clock[1][1].is_open

\* C16: in every tick the clock is queried first, and scan_and_trade is invoked in
\* the tick if and only if the clock response exists and reports is_open true; if
\* the clock is closed or unavailable the tick fetches no account, screens no
\* symbol and sends no order.
C16_ClockGatesTheCycle ==
    InTick =>
        /\ trace # <<>>
        /\ trace[1].op = "clock"
        /\ \A i \in DOMAIN trace : i > 1 => trace[i].op # "clock"
        /\ ScanInvoked <=> ClockSaysOpen
        /\ ~ClockSaysOpen =>
             /\ TraceOps = {"clock"}
             /\ acct = None
             /\ scanned = 0
             /\ candidates = <<>>
             /\ decision = <<>>
             /\ orders = <<>>
             /\ posts = <<>>

\* a tick whose clock answered "closed" and which went to sleep at once
C16_Witness ==
    /\ pc = "sleep"
    /\ clock = <<Some([is_open |-> FALSE])>>
    /\ outcome = "market_closed"
    /\ TraceOps = {"clock"}
    /\ ~ScanInvoked

\* a tick has ended and the next one is about to begin
TickEnded == pc = "tick" /\ outcome # ""

\* C18 as stated: every tick, whatever its outcome (market open, market closed,
\* or a failure caught at the loop boundary), is followed by a sleep of
\* SCAN_INTERVAL_SEC before the next tick begins.
C18_FixedSleepAfterEveryTick ==
    /\ TickEnded => slept = SCAN_INTERVAL_SEC
    /\ InTick => slept = 0

\* C18 amended: a tick that ends without an exception (market closed, or
\* scan_and_trade returned) is followed by a sleep of SCAN_INTERVAL_SEC, a tick
\* that ends with an exception caught at the loop boundary by a sleep of 5 s;
\* no tick begins without one of the two sleeps after the tick before it.
C18_SleepAfterEveryTick ==
    /\ TickEnded =>
         slept = (IF outcome = "loop_error" THEN LOOP_ERROR_SLEEP_SEC
                  ELSE SCAN_INTERVAL_SEC)
    /\ InTick => slept = 0

\* a tick failed at the loop boundary and the next begins after the short sleep
C18_Witness ==
    /\ TickEnded
    /\ outcome = "loop_error"
    /\ slept = LOOP_ERROR_SLEEP_SEC

\* C19: if every order sent becomes an open position before the next positions
\* fetch, nobody else adds positions and the positions read never fails, then
\* from at most MAX_CONCURRENT_POS open positions on, the number of open positions
\* never exceeds MAX_CONCURRENT_POS.
C19_OpenPositionsWithinCap ==
    /\ held <= MAX_CONCURRENT_POS
    /\ pos <= MAX_CONCURRENT_POS

\* an order filled the last free slot
C19_Witness ==
    /\ orders # <<>>
    /\ pos = MAX_CONCURRENT_POS - 1
    /\ held = MAX_CONCURRENT_POS

\* C20: within one cycle the order POST is sent again only directly after a 429
\* answer to the attempt before it; after a success, another HTTP error, a
\* timeout or any other transport exception no further order POST is made in
\* the cycle, so at most one order POST per cycle gets an outcome other than 429.
C20_OrderResentOnlyAfter429 ==
    /\ \A i \in DOMAIN posts : i < Len(posts) => posts[i] = "429"
    /\ Cardinality({i \in DOMAIN posts : posts[i] # "429"}) <= 1
    /\ posts # <<>> => (Len(orders) = 1 /\ Cardinality(CallsOf("order")) = 1)
    /\ orders = <<>> => posts = <<>>

\* the order was sent again after a 429, timed out, and was not sent a third time
C20_Witness ==
    /\ posts = <<"429", "timeout">>
    /\ Len(orders) = 1
    /\ outcome = "ordered"

-----------------------------------------------------------------------------
(* The request executor on its own: one call of get_json or post_json for  *)
(* one of the program's endpoints, attempt by attempt.                     *)
(***************************************************************************)
Endpoints == {[fn |-> "get_json", method |-> "GET", path |-> "/v2/clock"],
              [fn |-> "get_json", method |-> "GET", path |-> "/v2/account"],
              [fn |-> "get_json", method |-> "GET", path |-> "/v2/positions"],
              [fn |-> "get_json", method |-> "GET", path |-> "/v2/stocks/bars"],
              [fn |-> "get_json", method |-> "GET", path |-> "/v2/stocks/snapshot"],
              [fn |-> "post_json", method |-> "POST", path |-> "/v2/orders"]}

InitReq ==
    /\ CycleOff
    /\ call \in Endpoints
    /\ req = req_start(call.method)
    /\ ret = <<>>

\* lines 35-51: one attempt
ReqAttempt ==
    /\ req.state = "loop"
    /\ req_in_budget(req.tries)
    /\ \E o \in HttpOutcomes : req' = req_attempt(req, o)
    /\ ret' = IF req'.state = "returned" THEN <<req'.result>> ELSE ret
    /\ UNCHANGED <<cycleVars, call>>

\* line 52
ReqExhausted ==
    /\ req.state = "loop"
    /\ ~req_in_budget(req.tries)
    /\ req' = req_exhausted(req)
    /\ ret' = <<req'.result>>
    /\ UNCHANGED <<cycleVars, call>>

NextReq == ReqAttempt \/ ReqExhausted

SpecReq == InitReq /\ [][NextReq]_vars

ReqReturned == req.state = "returned"

\* C13: get_json / post_json hand their caller a payload or None on every
\* failure and never let an exception through
C13_ExecutorNeverRaises ==
    ReqReturned => req.result \in {"payload", "none"}

\* the waits 1, 2, 4, ... of the first n rate-limited attempts
RECURSIVE PowersOfTwo(_)
PowersOfTwo(n) == IF n = 0 THEN <<>> ELSE Append(PowersOfTwo(n - 1), 2 ^ (n - 1))

\* C14: a call of _req makes at most 3 attempts, makes another one only after
\* a 429, sleeps 2^k seconds after its k-th rate-limited attempt (k = 0, 1, 2)
\* and returns None when the 3 attempts are used up
C14_ReqBoundedBackoff ==
    req.state \in {"loop", "returned"} =>
        /\ Len(req.attempts) <= 3
        /\ \A i \in 1..(Len(req.attempts) - 1) : req.attempts[i] = "429"
        /\ req.state = "loop" => \A i \in 1..Len(req.attempts) : req.attempts[i] = "429"
        /\ req.waits = PowersOfTwo(Cardinality({i \in 1..Len(req.attempts) :
                                                   req.attempts[i] = "429"}))
        /\ (ReqReturned /\ req.attempts = <<"429", "429", "429">>) => req.result = "none"
        /\ (ReqReturned /\ req.result = "none") => ret = <<"none">>

C14_Witness ==
    /\ ReqReturned
    /\ req.attempts = <<"429", "429", "429">>
    /\ req.waits = <<1, 2, 4>>
    /\ req.result = "none"

=============================================================================
